---------------------------- MODULE Spec2Model ----------------------------
(***************************************************************************)
(* A model of ModSide.py: the mod scanner ModInfor (dispatcher, per-loader *)
(* handlers, heuristic scanners, _decide_side, the Registry self.mods and  *)
(* its JSON snapshots) and the UI callbacks that drive it.                 *)
(*                                                                         *)
(* Python values are tagged records: None, Str(s), List(q), Dict(f).  The  *)
(* tag field t sorts before v, so two values of different types compare    *)
(* unequal instead of being an error.                                      *)
(***************************************************************************)
EXTENDS Naturals, Sequences, FiniteSets, TLC

VARIABLES
    call,        \* the arguments of the pure function under test
    ret,         \* <<>> before the call, <<value>> after it
    mods,        \* ModInfor.mods: the Registry, a dict in insertion order
    recordDir,   \* the record directory: the ModelInfo_*.json files in it
    clock,       \* datetime.now(), in seconds
    listing,     \* the archives under the scanned folder, in walk order
    scan,        \* the PathHandler call in progress or just ended
    last,        \* the last operation: its name, the Registry before it, its result
    ui           \* the UI object: its paths, its worker threads, its callback

vars == <<call, ret, mods, recordDir, clock, listing, scan, last, ui>>

---------------------------------------------------------------------------
(* Python values *)

None == [t |-> "null"]
Str(s) == [t |-> "str", v |-> s]
List(q) == [t |-> "list", v |-> q]
Dict(f) == [t |-> "dict", v |-> f]
Num(n) == [t |-> "num", v |-> n]

StrList(q) == List([i \in DOMAIN q |-> Str(q[i])])

\* bool(x)
Truthy(x) ==
    CASE x.t = "null" -> FALSE
      [] x.t = "str"  -> x.v # ""
      [] x.t = "list" -> Len(x.v) > 0
      [] x.t = "dict" -> DOMAIN x.v # {}
      [] x.t = "num"  -> x.v # 0
      [] x.t = "text" -> ~x.empty
      [] OTHER        -> TRUE

\* x or d
Or(x, d) == IF Truthy(x) THEN x ELSE d

\* d.get(k, default) on a dict
Get(d, k, default) == IF k \in DOMAIN d.v THEN d.v[k] ELSE default

\* f"{x}" of a string or of None
Fmt(x) == IF x.t = "null" THEN "None" ELSE x.v

---------------------------------------------------------------------------
(* Bounds of the model *)

MaxReasons == 2

---------------------------------------------------------------------------
(* ModInfor._decide_side *)

WARNING ==
    "WARNING: metadata says server_only but client markers found (possible mispackaged mod)"

Prefixed(tag, rs) == [i \in DOMAIN rs |-> tag \o rs[i]]

MetaTagged(loader, rs) == Prefixed("[meta/" \o loader \o "] ", rs)
MixinTagged(rs) == Prefixed("[mixin] ", rs)
ClassTagged(rs) == Prefixed("[class-scan] ", rs)

\* _decide_side with the class-marker rule tried before the metadata rules
_decide_side_class_rule_first(loader, meta_side, meta_reasons, mixin_client_hit, mixin_reasons, class_marker_hit, class_reasons) ==
    LET reasons == MetaTagged(loader, meta_reasons) IN
    IF class_marker_hit THEN <<"risky", reasons \o ClassTagged(class_reasons)>>
    ELSE IF meta_side = "client_only" THEN <<"client_only", reasons>>
    ELSE IF meta_side = "server_only" THEN
        IF mixin_client_hit
        THEN <<"risky", reasons \o MixinTagged(mixin_reasons) \o <<WARNING>> >>
        ELSE <<"server_only", reasons>>
    ELSE IF mixin_client_hit THEN <<"both", reasons \o MixinTagged(mixin_reasons)>>
    ELSE IF meta_side = "both" THEN <<"both", reasons>>
    ELSE <<"unknown", reasons>>

\* _decide_side with "and" for "or" in the server_only rule
_decide_side_server_needs_both_hits(loader, meta_side, meta_reasons, mixin_client_hit, mixin_reasons, class_marker_hit, class_reasons) ==
    LET reasons == MetaTagged(loader, meta_reasons) IN
    IF meta_side = "client_only" THEN <<"client_only", reasons>>
    ELSE IF meta_side = "server_only" THEN
        IF class_marker_hit /\ mixin_client_hit
        THEN <<"risky", reasons \o MixinTagged(mixin_reasons)
                                \o ClassTagged(class_reasons) \o <<WARNING>> >>
        ELSE <<"server_only", reasons>>
    ELSE IF class_marker_hit THEN <<"risky", reasons \o ClassTagged(class_reasons)>>
    ELSE IF mixin_client_hit THEN <<"both", reasons \o MixinTagged(mixin_reasons)>>
    ELSE IF meta_side = "both" THEN <<"both", reasons>>
    ELSE <<"unknown", reasons>>

\* _decide_side with the mixin rule tried before the class-marker rule
_decide_side_mixin_rule_first(loader, meta_side, meta_reasons, mixin_client_hit, mixin_reasons, class_marker_hit, class_reasons) ==
    LET reasons == MetaTagged(loader, meta_reasons) IN
    IF meta_side = "client_only" THEN <<"client_only", reasons>>
    ELSE IF meta_side = "server_only" THEN
        IF class_marker_hit \/ mixin_client_hit
        THEN <<"risky", reasons \o MixinTagged(mixin_reasons)
                                \o ClassTagged(class_reasons) \o <<WARNING>> >>
        ELSE <<"server_only", reasons>>
    ELSE IF mixin_client_hit THEN <<"both", reasons \o MixinTagged(mixin_reasons)>>
    ELSE IF class_marker_hit THEN <<"risky", reasons \o ClassTagged(class_reasons)>>
    ELSE IF meta_side = "both" THEN <<"both", reasons>>
    ELSE <<"unknown", reasons>>

\* _decide_side with the two extend() calls of the server_only rule swapped
_decide_side_class_reasons_first(loader, meta_side, meta_reasons, mixin_client_hit, mixin_reasons, class_marker_hit, class_reasons) ==
    LET reasons == MetaTagged(loader, meta_reasons) IN
    IF meta_side = "client_only" THEN <<"client_only", reasons>>
    ELSE IF meta_side = "server_only" THEN
        IF class_marker_hit \/ mixin_client_hit
        THEN <<"risky", reasons \o ClassTagged(class_reasons)
                                \o MixinTagged(mixin_reasons) \o <<WARNING>> >>
        ELSE <<"server_only", reasons>>
    ELSE IF class_marker_hit THEN <<"risky", reasons \o ClassTagged(class_reasons)>>
    ELSE IF mixin_client_hit THEN <<"both", reasons \o MixinTagged(mixin_reasons)>>
    ELSE IF meta_side = "both" THEN <<"both", reasons>>
    ELSE <<"unknown", reasons>>

\* _decide_side with a mixin hit alone read as client_only
_decide_side_mixin_means_client(loader, meta_side, meta_reasons, mixin_client_hit, mixin_reasons, class_marker_hit, class_reasons) ==
    LET reasons == MetaTagged(loader, meta_reasons) IN
    IF meta_side = "client_only" THEN <<"client_only", reasons>>
    ELSE IF meta_side = "server_only" THEN
        IF class_marker_hit \/ mixin_client_hit
        THEN <<"risky", reasons \o MixinTagged(mixin_reasons)
                                \o ClassTagged(class_reasons) \o <<WARNING>> >>
        ELSE <<"server_only", reasons>>
    ELSE IF class_marker_hit THEN <<"risky", reasons \o ClassTagged(class_reasons)>>
    ELSE IF mixin_client_hit THEN <<"client_only", reasons \o MixinTagged(mixin_reasons)>>
    ELSE IF meta_side = "both" THEN <<"both", reasons>>
    ELSE <<"unknown", reasons>>

_decide_side(loader, meta_side, meta_reasons, mixin_client_hit, mixin_reasons, class_marker_hit, class_reasons) ==
    LET reasons == MetaTagged(loader, meta_reasons) IN
    IF meta_side = "client_only" THEN <<"client_only", reasons>>
    ELSE IF meta_side = "server_only" THEN
        IF class_marker_hit \/ mixin_client_hit
        THEN <<"risky", reasons \o MixinTagged(mixin_reasons)
                                \o ClassTagged(class_reasons) \o <<WARNING>> >>
        ELSE <<"server_only", reasons>>
    ELSE IF class_marker_hit THEN <<"risky", reasons \o ClassTagged(class_reasons)>>
    ELSE IF mixin_client_hit THEN <<"both", reasons \o MixinTagged(mixin_reasons)>>
    ELSE IF meta_side = "both" THEN <<"both", reasons>>
    ELSE <<"unknown", reasons>>

---------------------------------------------------------------------------
(* Archives.  An archive is [path, ext, zip, entries]: ext is the suffix   *)
(* PathHandler tests, zip says whether zipfile.ZipFile can open it, and    *)
(* entries are its members in namelist order, each [name, c].  A text      *)
(* member's content c is [t |-> "text", ok, utf8, empty, raw, cleaned]:    *)
(* ok says z.open/read succeed, utf8 that a strict decode succeeds, raw is *)
(* what the format's parser (json.loads, toml.loads) makes of the text and *)
(* cleaned what json.loads makes of it once JSONClean has removed the      *)
(* control characters; a parse that raises is Bad.  A class member's       *)
(* content is [t |-> "class", ok, at]: at[i] is the offset at which the    *)
(* first occurrence of marker i ends, 0 when the marker does not occur.    *)

Bad == [t |-> "bad"]

namelist(a) == [i \in DOMAIN a.entries |-> a.entries[i].name]

HasEntry(a, n) == \E i \in DOMAIN a.entries : a.entries[i].name = n

\* ZipFile.open(n): the member a name refers to is the last one of that name
Entry(a, n) ==
    LET i == CHOOSE k \in DOMAIN a.entries :
                 /\ a.entries[k].name = n
                 /\ \A j \in DOMAIN a.entries : a.entries[j].name = n => j <= k
    IN a.entries[i].c

\* ModInfor.safeRead_from_zip: the text, or None when the read raises
safeRead_from_zip(a, path) == IF Entry(a, path).ok THEN Entry(a, path) ELSE None

\* ModInfor.JSONClean: None when the cleaned text does not parse
JSONClean(txt) == IF txt.cleaned.t = "bad" THEN None ELSE txt.cleaned

\* ModInfor.safeLoad_from_json
safeLoad_from_json(txt) ==
    IF txt.raw.t # "bad" THEN txt.raw
    ELSE LET cleaned == JSONClean(txt) IN IF cleaned.t = "dict" THEN cleaned ELSE None

---------------------------------------------------------------------------
(* The names of the model's archives, and what the scanners' string tests  *)
(* make of them.                                                           *)

\* p.lower().endswith(".json") and basename(p).lower().startswith("mixins")
IsMixinConfigName(p) == p \in {"mixins.m.json", "assets/Mixins.M.Client.JSON"}

\* p.endswith(".class")
IsClassName(p) == p \in {"A.class", "B.class", "net/C.class"}

markers ==
    << "net/minecraft/client/", "net/minecraft/client/MinecraftClient",
       "com/mojang/blaze3d/", "org/lwjgl/", "net/fabricmc/api/ClientModInitializer" >>

\* ModInfor._scan_mixins_for_client_sections: <<hit, reasons>>
MixinHit(a, p) ==
    /\ IsMixinConfigName(p)
    /\ Truthy(safeRead_from_zip(a, p))
    /\ LET j == safeLoad_from_json(safeRead_from_zip(a, p)) IN
       /\ j.t = "dict"
       /\ "client" \in DOMAIN j.v
       /\ j.v["client"].t = "list"
       /\ Len(j.v["client"].v) > 0

\* json.loads raises RecursionError on the entry (brackets nested deeper
\* than the interpreter allows): safeLoad_from_json catches it and retries
\* with JSONClean, whose except clause does not name it
MixinRaises(a, p) ==
    /\ IsMixinConfigName(p)
    /\ Truthy(safeRead_from_zip(a, p))
    /\ safeRead_from_zip(a, p).raw.t = "deep"

\* _scan_mixins_for_client_sections raises instead of returning
_scan_mixins_raises(a) == \E i \in DOMAIN a.entries : MixinRaises(a, a.entries[i].name)

MixinReason(p) == "mixin config '" \o p \o "' contains non-empty 'client' section"

_scan_mixins_for_client_sections(a) ==
    LET hitNames == SelectSeq(namelist(a), LAMBDA p : MixinHit(a, p)) IN
    << Len(hitNames) > 0, [i \in DOMAIN hitNames |-> MixinReason(hitNames[i])] >>

\* the first marker found in data = f.read(max_bytes_per_class), 0 when none is
FirstMarker(c, max_bytes_per_class) ==
    LET found == {i \in DOMAIN markers : c.at[i] # 0 /\ c.at[i] <= max_bytes_per_class} IN
    IF found = {} THEN 0 ELSE CHOOSE i \in found : \A j \in found : i <= j

\* the loop left at the first class with a marker
_scan_class_bytes_stopping_at_first_hit(a, max_classes, max_bytes_per_class) ==
    LET classNames == SelectSeq(namelist(a), IsClassName)
        scannedNames == SubSeq(classNames, 1, IF Len(classNames) < max_classes THEN Len(classNames) ELSE max_classes)
        hitNames == SelectSeq(scannedNames, LAMBDA p : Entry(a, p).ok /\ FirstMarker(Entry(a, p), max_bytes_per_class) # 0)
        firstHit == SubSeq(hitNames, 1, IF Len(hitNames) = 0 THEN 0 ELSE 1)
        hits == [i \in DOMAIN firstHit |-> "class bytes contain marker: " \o markers[FirstMarker(Entry(a, firstHit[i]), max_bytes_per_class)]]
    IN << Len(hits) > 0, hits >>

\* f.read() of the whole entry
_scan_class_bytes_reading_whole_entries(a, max_classes, max_bytes_per_class) ==
    LET classNames == SelectSeq(namelist(a), IsClassName)
        scannedNames == SubSeq(classNames, 1, IF Len(classNames) < max_classes THEN Len(classNames) ELSE max_classes)
        hitNames == SelectSeq(scannedNames, LAMBDA p : Entry(a, p).ok /\ \E i \in DOMAIN markers : Entry(a, p).at[i] # 0)
        hits == [i \in DOMAIN hitNames |-> "class bytes contain marker"]
    IN << Len(hits) > 0, hits >>

\* ModInfor._scan_class_bytes_for_client_markers: <<hit, reasons>>
_scan_class_bytes_for_client_markers(a, max_classes, max_bytes_per_class) ==
    LET classNames == SelectSeq(namelist(a), IsClassName)
        scannedNames == SubSeq(classNames, 1, IF Len(classNames) < max_classes THEN Len(classNames) ELSE max_classes)
        hitNames == SelectSeq(scannedNames, LAMBDA p : Entry(a, p).ok /\ FirstMarker(Entry(a, p), max_bytes_per_class) # 0)
        hits == [i \in DOMAIN hitNames |-> "class bytes contain marker: " \o markers[FirstMarker(Entry(a, hitNames[i]), max_bytes_per_class)]]
    IN << Len(hits) > 0, hits >>

max_classes_default == 300
max_bytes_per_class_default == 200000

---------------------------------------------------------------------------
(* The Registry: ModInfor.mods, a dict, kept as the sequence of its        *)
(* [key, rec] items in insertion order.                                    *)

Keys(m) == {m[i].key : i \in DOMAIN m}

Lookup(m, key) == m[CHOOSE i \in DOMAIN m : m[i].key = key].rec

\* ModInfor._make_mod_key
_make_mod_key(modid, loader, version) ==
    LET lid == Or(loader, Str("unknown"))
        ver == Or(version, Str("unknown"))
    IN Fmt(modid) \o "_" \o Fmt(lid) \o "_" \o Fmt(ver)

\* the dataclass ModInfo
ModInfo(modid, name, version, side, loader, reasons, debug, source_files) ==
    [modid |-> modid, name |-> name, version |-> version, side |-> side, loader |-> loader, reasons |-> reasons, debug |-> debug, source_files |-> source_files]

\* a taken key has the source file of the new record added to its own
InsertMergingSources(m, key, rec) ==
    IF key \in Keys(m) THEN
        [i \in DOMAIN m |-> IF m[i].key = key
                            THEN [m[i] EXCEPT !.rec.source_files = List(m[i].rec.source_files.v \o rec.source_files.v)]
                            ELSE m[i]]
    ELSE Append(m, [key |-> key, rec |-> rec])

\* self.mods[key] = rec without the test: a taken key gets the new record
InsertAlways(m, key, rec) ==
    IF key \in Keys(m) THEN [i \in DOMAIN m |-> IF m[i].key = key THEN [key |-> key, rec |-> rec] ELSE m[i]]
    ELSE Append(m, [key |-> key, rec |-> rec])

\* if key not in self.mods: self.mods[key] = rec
InsertIfNew(m, key, rec) ==
    IF key \in Keys(m) THEN m ELSE Append(m, [key |-> key, rec |-> rec])

\* What a handler does: it returns or raises, and leaves the Registry m.
Returns(m) == [raised |-> FALSE, mods |-> m]
Raises(m) == [raised |-> TRUE, mods |-> m]

---------------------------------------------------------------------------
(* The handlers.  Each is called with the Registry m and the archive a.    *)

\* s.lower(), on the environment strings of the model
Lower(s) ==
    CASE s = "Client" -> "client"
      [] s = "SERVER" -> "server"
      [] OTHER -> s

\* the entrypoint keys of the model's fabric.mod.json files, sorted
EntrypointKinds == <<"client", "main", "preLaunch", "server">>

\* the entrypoints read before the environment
_extract_fabric_side_entrypoints_first(fabric_json) ==
    LET env == Get(fabric_json, "environment", Str("*"))
        entrypoints == Or(Get(fabric_json, "entrypoints", Dict(<<>>)), Dict(<<>>))
    IN
    IF entrypoints.t # "dict" THEN [raised |-> TRUE]
    ELSE
    LET has_main == "main" \in DOMAIN entrypoints.v
        has_server == "server" \in DOMAIN entrypoints.v
        has_client == "client" \in DOMAIN entrypoints.v
        out(side) == [raised |-> FALSE, side |-> side, reasons |-> <<>>, debug |-> None]
    IN
    IF (has_main \/ has_server) /\ ~has_client THEN out("both")
    ELSE IF has_client /\ ~(has_main \/ has_server) THEN out("client_only")
    ELSE IF env.t = "str" /\ Lower(env.v) = "client" THEN out("client_only")
    ELSE IF env.t = "str" /\ Lower(env.v) = "server" THEN out("server_only")
    ELSE out("unknown")

\* ModInfor._extract_fabric_side_from_metadata: [raised, side, reasons, debug]
_extract_fabric_side_from_metadata(fabric_json) ==
    LET env == Get(fabric_json, "environment", Str("*"))
        entrypoints == Or(Get(fabric_json, "entrypoints", Dict(<<>>)), Dict(<<>>))
    IN
    IF entrypoints.t # "dict" THEN [raised |-> TRUE]
    ELSE
    LET keys == SelectSeq(EntrypointKinds, LAMBDA k : k \in DOMAIN entrypoints.v)
        debug == Dict([environment |-> env, entrypoints_keys |-> StrList(keys)])
        has_main == "main" \in DOMAIN entrypoints.v
        has_server == "server" \in DOMAIN entrypoints.v
        has_client == "client" \in DOMAIN entrypoints.v
        out(side, reasons) == [raised |-> FALSE, side |-> side, reasons |-> reasons, debug |-> debug]
    IN
    IF env.t = "str" /\ Lower(env.v) = "client"
    THEN out("client_only", <<"fabric.mod.json: environment=client">>)
    ELSE IF env.t = "str" /\ Lower(env.v) = "server"
    THEN out("server_only", <<"fabric.mod.json: environment=server">>)
    ELSE IF (has_main \/ has_server) /\ ~has_client
    THEN out("both", <<"fabric.mod.json: has entrypoints main/server (no client-only entrypoint)">>)
    ELSE IF has_client /\ ~(has_main \/ has_server)
    THEN out("client_only", <<"fabric.mod.json: only client entrypoint present">>)
    ELSE out("unknown", <<"fabric.mod.json: no decisive env/entrypoints">>)

\* The three signals of an archive merged: _scan_mixins_for_client_sections,
\* _scan_class_bytes_for_client_markers with its default caps, _decide_side.
Classify(a, loader, meta_side, meta_reasons) ==
    LET mixin == _scan_mixins_for_client_sections(a)
        class == _scan_class_bytes_for_client_markers(a, max_classes_default, max_bytes_per_class_default)
    IN _decide_side(loader, meta_side, meta_reasons, mixin[1], mixin[2], class[1], class[2])

\* The end of each handler: nothing when the id is empty, else the record
\* under its composite key unless the key is taken.
Record(m, a, modid, name, version, loader, verdict, debug) ==
    IF ~Truthy(modid) THEN m
    ELSE InsertIfNew(m, _make_mod_key(modid, Str(loader), version),
                     ModInfo(modid, name, version, Str(verdict[1]), Str(loader),
                             StrList(verdict[2]), debug, StrList(<<a.path>>)))

\* ModInfor.FabricModHandler
FabricModHandler(m, a) ==
    IF ~a.zip THEN Raises(m)
    ELSE IF ~HasEntry(a, "fabric.mod.json") THEN Returns(m)
    ELSE
    LET txt == safeRead_from_zip(a, "fabric.mod.json") IN
    IF ~Truthy(txt) THEN Returns(m)
    ELSE
    LET data == JSONClean(txt) IN
    IF data.t # "dict" THEN Returns(m)
    ELSE
    LET meta == _extract_fabric_side_from_metadata(data) IN
    IF meta.raised THEN Raises(m)
    ELSE
    IF _scan_mixins_raises(a) THEN Raises(m)
    ELSE
    LET verdict == Classify(a, "fabric", meta.side, meta.reasons)
        version == Or(Get(data, "version", Str("")), Str("unknown"))
    IN Returns(Record(m, a, Get(data, "id", Str("")), Get(data, "name", Str("")),
                      version, "fabric", verdict, meta.debug))

\* ModInfor.RiftModHandler
RiftModHandler(m, a) ==
    IF ~a.zip THEN Raises(m)
    ELSE IF ~HasEntry(a, "riftmod.json") THEN Returns(m)
    ELSE
    LET txt == safeRead_from_zip(a, "riftmod.json") IN
    IF ~Truthy(txt) THEN Returns(m)
    ELSE
    LET data == JSONClean(txt) IN
    IF data.t # "dict" THEN Returns(m)
    ELSE
    IF _scan_mixins_raises(a) THEN Raises(m)
    ELSE
    LET verdict == Classify(a, "rift", "unknown", <<"riftmod.json: no standard sided metadata">>)
        version == Or(Get(data, "version", Str("")), Str("unknown"))
    IN Returns(Record(m, a, Get(data, "id", Str("")), Get(data, "name", Str("")),
                      version, "rift", verdict, None))

\* ModInfor.QuiltModHandler
QuiltModHandler(m, a) ==
    IF ~a.zip THEN Raises(m)
    ELSE IF ~HasEntry(a, "quilt.mod.json") THEN Returns(m)
    ELSE
    LET txt == safeRead_from_zip(a, "quilt.mod.json") IN
    IF ~Truthy(txt) THEN Returns(m)
    ELSE
    LET data == JSONClean(txt) IN
    IF data.t # "dict" THEN Returns(m)
    ELSE
    LET loader_data == Or(Get(data, "quilt_loader", Dict(<<>>)), Dict(<<>>)) IN
    IF loader_data.t # "dict" THEN Raises(m)
    ELSE
    LET meta == Or(Get(loader_data, "metadata", Dict(<<>>)), Dict(<<>>)) IN
    IF meta.t # "dict" THEN Raises(m)
    ELSE
    IF _scan_mixins_raises(a) THEN Raises(m)
    ELSE
    LET env == Get(loader_data, "environment", Get(meta, "environment", Str("*")))
        meta_side == IF env.t = "str" /\ Lower(env.v) = "client" THEN "client_only"
                     ELSE IF env.t = "str" /\ Lower(env.v) = "server" THEN "server_only"
                     ELSE "unknown"
        meta_reasons == IF meta_side = "client_only" THEN <<"quilt.mod.json: environment=client">>
                        ELSE IF meta_side = "server_only" THEN <<"quilt.mod.json: environment=server">>
                        ELSE <<"quilt.mod.json: no decisive environment field">>
        verdict == Classify(a, "quilt", meta_side, meta_reasons)
        version == Or(Get(loader_data, "version", Str("")), Str("unknown"))
    IN Returns(Record(m, a, Get(loader_data, "id", Str("")), Get(meta, "name", Str("")),
                      version, "quilt", verdict, Dict([environment |-> env])))

\* ModInfor.LForgeModHandler
LForgeModHandler(m, a) ==
    IF ~a.zip THEN Raises(m)
    ELSE IF ~HasEntry(a, "mcmod.info") THEN Returns(m)
    ELSE
    LET raw_data == safeRead_from_zip(a, "mcmod.info") IN
    IF ~Truthy(raw_data) THEN Returns(m)
    ELSE
    LET cleaned_data == JSONClean(raw_data) IN
    IF cleaned_data.t = "null" THEN Returns(m)
    ELSE IF ~(Truthy(cleaned_data) /\ cleaned_data.t = "list") /\ cleaned_data.t # "dict" THEN Returns(m)
    ELSE
    LET mod_info == IF cleaned_data.t = "list" THEN cleaned_data.v[1] ELSE cleaned_data IN
    IF mod_info.t # "dict" THEN Raises(m)
    ELSE
    IF _scan_mixins_raises(a) THEN Raises(m)
    ELSE
    LET verdict == Classify(a, "forge_legacy", "unknown", <<"forge legacy: mcmod.info has no reliable sided metadata">>)
        version == Or(Get(mod_info, "version", Str("")), Str("unknown"))
    IN Returns(Record(m, a, Get(mod_info, "modid", Str("")), Get(mod_info, "name", Str("")),
                      version, "forge_legacy", verdict, None))

\* The version of a mods.toml: the manifest's first Implementation-Version
\* when the declared one is the placeholder and the manifest has one.
\* [raised, version]
ManifestVersion(a, version) ==
    IF ~(version.t = "str" /\ version.v = "${file.jarVersion}") THEN [raised |-> FALSE, version |-> version]
    ELSE IF ~HasEntry(a, "META-INF/MANIFEST.MF") THEN [raised |-> FALSE, version |-> version]
    ELSE IF ~Entry(a, "META-INF/MANIFEST.MF").ok THEN [raised |-> TRUE]
    ELSE LET impl == Entry(a, "META-INF/MANIFEST.MF").impl IN
         [raised |-> FALSE, version |-> IF Len(impl) > 0 THEN Str(impl[1]) ELSE version]

\* mods[0] of data.get('mods', []), for the two mods.toml handlers:
\* [returned] when there is none, [raised] when taking it or reading it raises
FirstMod(c) ==
    IF ~c.ok \/ c.raw.t = "bad" THEN [raised |-> TRUE, returned |-> FALSE]
    ELSE LET modsList == Get(c.raw, "mods", List(<<>>)) IN
         IF ~Truthy(modsList) THEN [raised |-> FALSE, returned |-> TRUE]
         ELSE IF modsList.t # "list" \/ modsList.v[1].t # "dict" THEN [raised |-> TRUE, returned |-> FALSE]
         ELSE [raised |-> FALSE, returned |-> FALSE, mod_info |-> modsList.v[1]]

\* ModInfor.MForgeModHandler
MForgeModHandler(m, a) ==
    IF ~a.zip THEN Raises(m)
    ELSE IF ~HasEntry(a, "META-INF/mods.toml") THEN Returns(m)
    ELSE
    LET first == FirstMod(Entry(a, "META-INF/mods.toml")) IN
    IF first.raised THEN Raises(m)
    ELSE IF first.returned THEN Returns(m)
    ELSE
    LET mv == ManifestVersion(a, Get(first.mod_info, "version", Str(""))) IN
    IF mv.raised THEN Raises(m)
    ELSE
    IF _scan_mixins_raises(a) THEN Raises(m)
    ELSE
    LET verdict == Classify(a, "forge", "unknown", <<"forge mods.toml: no reliable sided metadata; using class scan">>)
    IN Returns(Record(m, a, Get(first.mod_info, "modId", Str("")), Get(first.mod_info, "displayName", Str("")),
                      mv.version, "forge", verdict, None))

\* ModInfor.NeoForgeModHandler
NeoForgeModHandler(m, a) ==
    IF ~a.zip THEN Raises(m)
    ELSE IF ~HasEntry(a, "META-INF/neoforge.mods.toml") THEN Returns(m)
    ELSE
    LET first == FirstMod(Entry(a, "META-INF/neoforge.mods.toml")) IN
    IF first.raised THEN Raises(m)
    ELSE IF first.returned THEN Returns(m)
    ELSE
    IF _scan_mixins_raises(a) THEN Raises(m)
    ELSE
    LET verdict == Classify(a, "neoforge", "unknown", <<"neoforge mods.toml: no reliable sided metadata; using class scan">>)
        version == Or(Get(first.mod_info, "version", Str("")), Str("unknown"))
    IN Returns(Record(m, a, Get(first.mod_info, "modId", Str("")), Get(first.mod_info, "displayName", Str("")),
                      version, "neoforge", verdict, None))

\* meta_side = "both" in SpecialHandler
SpecialVerdict_meta_both(a) ==
    Classify(a, "special", "both", <<"special/unknown mod type: no known metadata">>)

\* ModInfor.SpecialHandler: the verdict it computes and drops
SpecialVerdict(a) ==
    Classify(a, "special", "unknown", <<"special/unknown mod type: no known metadata">>)

\* ModInfor.SpecialHandler: every exception is caught, nothing is inserted
SpecialHandler(m, a) == Returns(m)

\* ModInfor.UniversalHandler
UniversalHandler(m, a) ==
    IF ~a.zip THEN Raises(m)
    ELSE IF ~HasEntry(a, "mcmod.info") THEN Returns(m)
    ELSE
    LET c == Entry(a, "mcmod.info") IN
    IF ~c.ok \/ ~c.utf8 THEN Raises(m)
    ELSE
    LET data == JSONClean(c) IN
    IF data.t = "null" THEN Returns(m)
    ELSE IF data.t = "list" /\ Len(data.v) > 0 THEN
        IF data.v[1].t # "dict" THEN Raises(m)
        ELSE Returns(Record(m, a, Get(data.v[1], "modid", Str("")), Get(data.v[1], "name", Str("")),
                            Or(Get(data.v[1], "version", Str("")), Str("unknown")), "universal",
                            <<"unknown", <<"legacy/zip: mcmod.info has no reliable sided metadata">> >>, None))
    ELSE IF data.t = "dict" /\ "modlist" \in DOMAIN data.v THEN
        LET modlist == data.v["modlist"] IN
        IF modlist.t \notin {"list", "dict", "str"} THEN Raises(m)
        ELSE IF ~Truthy(modlist) THEN Returns(m)
        ELSE IF modlist.t # "list" \/ modlist.v[1].t # "dict" THEN Raises(m)
        ELSE Returns(Record(m, a, Get(modlist.v[1], "modid", Str("")), Get(modlist.v[1], "name", Str("")),
                            Or(Get(modlist.v[1], "version", Str("")), Str("unknown")), "universal",
                            <<"unknown", <<"legacy/zip: mcmod.info has no reliable sided metadata">> >>, None))
    ELSE Returns(m)

\* mcmod.info tested before quilt.mod.json
JarFileHandler_legacy_before_quilt(m, a) ==
    IF ~a.zip THEN Raises(m)
    ELSE IF HasEntry(a, "fabric.mod.json") THEN FabricModHandler(m, a)
    ELSE IF HasEntry(a, "riftmod.json") THEN RiftModHandler(m, a)
    ELSE IF HasEntry(a, "mcmod.info") THEN LForgeModHandler(m, a)
    ELSE IF HasEntry(a, "quilt.mod.json") THEN QuiltModHandler(m, a)
    ELSE IF HasEntry(a, "META-INF/mods.toml") THEN MForgeModHandler(m, a)
    ELSE IF HasEntry(a, "META-INF/neoforge.mods.toml") THEN NeoForgeModHandler(m, a)
    ELSE SpecialHandler(m, a)

\* ModInfor.JarFileHandler: the handler of the first trigger in the namelist
JarFileHandler(m, a) ==
    IF ~a.zip THEN Raises(m)
    ELSE IF HasEntry(a, "fabric.mod.json") THEN FabricModHandler(m, a)
    ELSE IF HasEntry(a, "riftmod.json") THEN RiftModHandler(m, a)
    ELSE IF HasEntry(a, "quilt.mod.json") THEN QuiltModHandler(m, a)
    ELSE IF HasEntry(a, "mcmod.info") THEN LForgeModHandler(m, a)
    ELSE IF HasEntry(a, "META-INF/mods.toml") THEN MForgeModHandler(m, a)
    ELSE IF HasEntry(a, "META-INF/neoforge.mods.toml") THEN NeoForgeModHandler(m, a)
    ELSE SpecialHandler(m, a)

\* One item of ModInfor.PathHandler's loop, by the suffix of its path
HandleItem(m, a) ==
    IF a.ext = "litemod" THEN UniversalHandler(m, a)
    ELSE IF a.ext = "zip" THEN UniversalHandler(m, a)
    ELSE IF a.ext = "jar" THEN JarFileHandler(m, a)
    ELSE Returns(m)

---------------------------------------------------------------------------
(* The archives of the model *)

JsonFile(v) == [t |-> "text", ok |-> TRUE, utf8 |-> TRUE, empty |-> FALSE, raw |-> v, cleaned |-> v]
\* valid JSON once its control characters are removed
CtrlJsonFile(v) == [t |-> "text", ok |-> TRUE, utf8 |-> TRUE, empty |-> FALSE, raw |-> Bad, cleaned |-> v]
\* a mixin config of brackets nested too deep for json.loads
DeepJsonFile == [t |-> "text", ok |-> TRUE, utf8 |-> TRUE, empty |-> FALSE, raw |-> [t |-> "deep"], cleaned |-> [t |-> "deep"]]
GarbageFile == [t |-> "text", ok |-> TRUE, utf8 |-> TRUE, empty |-> FALSE, raw |-> Bad, cleaned |-> Bad]
EmptyFile == [t |-> "text", ok |-> TRUE, utf8 |-> TRUE, empty |-> TRUE, raw |-> Bad, cleaned |-> Bad]
UnreadableFile == [t |-> "text", ok |-> FALSE, utf8 |-> TRUE, empty |-> FALSE, raw |-> Bad, cleaned |-> Bad]
\* valid JSON with a byte that is not UTF-8 in a string
NonUtf8JsonFile(v) == [t |-> "text", ok |-> TRUE, utf8 |-> FALSE, empty |-> FALSE, raw |-> v, cleaned |-> v]
TomlFile(v) == [t |-> "text", ok |-> TRUE, utf8 |-> TRUE, empty |-> FALSE, raw |-> v, cleaned |-> Bad]
ManifestFile(impl) == [t |-> "manifest", ok |-> TRUE, impl |-> impl]
ClassFile(at) == [t |-> "class", ok |-> TRUE, at |-> at]

Member(name, c) == [name |-> name, c |-> c]
Archive(path, ext, zip, entries) == [path |-> path, ext |-> ext, zip |-> zip, entries |-> entries]

NoMarker == <<0, 0, 0, 0, 0>>
LwjglAt(n) == <<0, 0, 0, n, 0>>

FabricBoth ==
    Archive("mods/a.jar", "jar", TRUE,
        << Member("fabric.mod.json", JsonFile(Dict([id |-> Str("m"), name |-> Str("A"), version |-> Str("1"),
                                                    entrypoints |-> Dict([main |-> List(<<Str("M")>>)])]))),
           Member("A.class", ClassFile(NoMarker)) >>)

\* the id, loader and version of FabricBoth under another name, declared
\* for the server and with a client marker in a class
FabricServerRisky ==
    Archive("mods/b.jar", "jar", TRUE,
        << Member("fabric.mod.json", JsonFile(Dict([id |-> Str("m"), name |-> Str("B"), version |-> Str("1"),
                                                    environment |-> Str("SERVER")]))),
           Member("B.class", ClassFile(LwjglAt(40))) >>)

\* fabric.mod.json with "name": null
FabricNullName ==
    Archive("mods/nn.jar", "jar", TRUE,
        << Member("fabric.mod.json", JsonFile(Dict([id |-> Str("nn"), name |-> None, version |-> Str("1")]))) >>)

NotAZip == Archive("mods/bad.jar", "jar", FALSE, <<>>)

ForgePlaceholder ==
    Archive("mods/f.jar", "jar", TRUE,
        << Member("META-INF/MANIFEST.MF", ManifestFile(<<"2">>)),
           Member("META-INF/mods.toml", TomlFile(Dict([mods |-> List(<<Dict([modId |-> Str("m"), displayName |-> Str("F"),
                                                                            version |-> Str("${file.jarVersion}")])>>)]))),
           Member("mixins.m.json", JsonFile(Dict([client |-> List(<<Str("X")>>)]))) >>)

LegacyForge ==
    Archive("mods/l.jar", "jar", TRUE,
        << Member("mcmod.info", CtrlJsonFile(List(<<Dict([modid |-> Str("m"), name |-> Str("L"), version |-> Str("1")])>>))) >>)

UniversalZip ==
    Archive("mods/u.zip", "zip", TRUE,
        << Member("mcmod.info", JsonFile(Dict([modlist |-> List(<<Dict([modid |-> Str("m"), name |-> Str("U")])>>)]))) >>)

\* the key of UniversalZip under another name
UniversalLitemod ==
    Archive("mods/v.litemod", "litemod", TRUE,
        << Member("mcmod.info", JsonFile(List(<<Dict([modid |-> Str("m"), name |-> Str("V"), version |-> Str("")])>>))) >>)

\* a .zip with a client marker in a class
UniversalClientClass ==
    Archive("mods/uc.zip", "zip", TRUE,
        << Member("mcmod.info", JsonFile(List(<<Dict([modid |-> Str("uc"), name |-> Str("UC"), version |-> Str("1")])>>))),
           Member("A.class", ClassFile(LwjglAt(40))) >>)

\* a mods.toml whose mod declares no version
ForgeNoVersion ==
    Archive("mods/e.jar", "jar", TRUE,
        << Member("META-INF/mods.toml", TomlFile(Dict([mods |-> List(<<Dict([modId |-> Str("e"), displayName |-> Str("E")])>>)]))) >>)

\* a mcmod.info that is one object, with no modlist
LegacyObject ==
    Archive("mods/d.jar", "jar", TRUE,
        << Member("mcmod.info", JsonFile(Dict([modid |-> Str("d"), name |-> Str("D"), version |-> Str("1")]))) >>)

FabricGarbage ==
    Archive("mods/g.jar", "jar", TRUE, << Member("fabric.mod.json", GarbageFile) >>)

ForgeBadToml ==
    Archive("mods/t.jar", "jar", TRUE, << Member("META-INF/mods.toml", GarbageFile) >>)

QuiltClient ==
    Archive("mods/q.jar", "jar", TRUE,
        << Member("quilt.mod.json", JsonFile(Dict([quilt_loader |-> Dict([id |-> Str("q"), version |-> Str("1"),
                                                                         metadata |-> Dict([name |-> Str("Q")]),
                                                                         environment |-> Str("client")])]))) >>)

RiftUnreadable ==
    Archive("mods/r.jar", "jar", TRUE, << Member("riftmod.json", UnreadableFile) >>)

NeoForgeMod ==
    Archive("mods/n.jar", "jar", TRUE,
        << Member("META-INF/neoforge.mods.toml", TomlFile(Dict([mods |-> List(<<Dict([modId |-> Str("n"), displayName |-> Str("N")])>>)]))) >>)

NoMetadata == Archive("mods/o.jar", "jar", TRUE, << Member("net/C.class", ClassFile(LwjglAt(40))) >>)

ZipNonUtf8 ==
    Archive("mods/w.zip", "zip", TRUE,
        << Member("mcmod.info", NonUtf8JsonFile(List(<<Dict([modid |-> Str("w"), name |-> Str("W")])>>))) >>)

NotAnArchiveName == Archive("mods/readme.txt", "other", FALSE, <<>>)

Pool ==
    << FabricBoth, FabricServerRisky, NotAZip, ForgePlaceholder, LegacyForge, UniversalZip, UniversalLitemod,
       FabricGarbage, ForgeBadToml, QuiltClient, RiftUnreadable, NeoForgeMod, NoMetadata, ZipNonUtf8, NotAnArchiveName,
       FabricNullName, UniversalClientClass, ForgeNoVersion, LegacyObject >>

MaxArchives == 2

\* the directories of the model: at most MaxArchives files of the pool, in
\* any os.listdir order
Listings ==
    UNION { { [i \in 1..n |-> Pool[f[i]]] : f \in {g \in [1..n -> DOMAIN Pool] : \A i, j \in 1..n : g[i] = g[j] => i = j} } : n \in 0..MaxArchives }

---------------------------------------------------------------------------
(* The scanner used as a library: ModInfor() followed by any sequence of   *)
(* PathHandler(folder) and mods.clear() calls, PathHandler taken one       *)
(* directory item at a time.                                               *)

NoCall == [fn |-> "none"]
NoScan == [pc |-> "idle", idx |-> 0]
NoOp == [op |-> "none"]
NoUI == [pc |-> "none"]
NoDir == [exists |-> FALSE, files |-> <<>>]

Init ==
    /\ call = NoCall
    /\ ret = <<>>
    /\ mods = <<>>
    /\ recordDir = NoDir
    /\ clock = 0
    /\ listing \in Listings
    /\ scan = NoScan
    /\ last = NoOp
    /\ ui = NoUI

\* ModInfor.PathHandler is called: os.listdir.  last remembers the Registry
\* of the call, and whether the call before it was a walk of the folder
\* with no clear since
PathHandlerCall ==
    /\ scan.pc # "walking"
    /\ scan' = [pc |-> IF Len(listing) = 0 THEN "returned" ELSE "walking", idx |-> 1]
    /\ last' = [op |-> "PathHandler", rescan |-> last.op = "PathHandler", before |-> mods]
    /\ UNCHANGED <<call, ret, mods, recordDir, clock, listing, ui>>

\* One iteration of ModInfor.PathHandler's loop: the item's handler runs
\* and returns, or raises through PathHandler.
PathHandlerItem ==
    /\ scan.pc = "walking"
    /\ LET r == HandleItem(mods, listing[scan.idx]) IN
       /\ mods' = r.mods
       /\ scan' = IF r.raised THEN [pc |-> "raised", idx |-> scan.idx]
                  ELSE [pc |-> IF scan.idx = Len(listing) THEN "returned" ELSE "walking", idx |-> scan.idx + 1]
    /\ UNCHANGED <<call, ret, recordDir, clock, listing, last, ui>>

\* self.mods.clear()
ClearMods ==
    /\ scan.pc # "walking"
    /\ mods' = <<>>
    /\ last' = NoOp
    /\ UNCHANGED <<call, ret, recordDir, clock, listing, scan, ui>>

Next == PathHandlerCall \/ PathHandlerItem \/ ClearMods

Spec == Init /\ [][Next]_vars

---------------------------------------------------------------------------
(* _decide_side as a pure function: one call on arguments drawn from       *)
(* every loader name, every meta-side, both flags and short reason lists.  *)

Loaders == {"fabric", "rift", "quilt", "forge_legacy", "forge", "neoforge", "universal", "special"}
MetaSides == {"client_only", "server_only", "both", "unknown", "bogus"}
ReasonLists(S) == UNION {[1..n -> S] : n \in 0..MaxReasons}

DecideCalls ==
    [fn : {"_decide_side"}, loader : Loaders, meta_side : MetaSides, meta_reasons : ReasonLists({"m1", "m2"}),
     mixin_client_hit : BOOLEAN, mixin_reasons : ReasonLists({"x1", "x2"}),
     class_marker_hit : BOOLEAN, class_reasons : ReasonLists({"c1", "c2"})]

InitDecide ==
    /\ call \in DecideCalls
    /\ ret = <<>>
    /\ mods = <<>>
    /\ recordDir = NoDir
    /\ clock = 0
    /\ listing = <<>>
    /\ scan = NoScan
    /\ last = NoOp
    /\ ui = NoUI

DecideSide ==
    /\ call.fn = "_decide_side"
    /\ ret = <<>>
    /\ ret' = << _decide_side(call.loader, call.meta_side, call.meta_reasons, call.mixin_client_hit,
                              call.mixin_reasons, call.class_marker_hit, call.class_reasons) >>
    /\ UNCHANGED <<call, mods, recordDir, clock, listing, scan, last, ui>>

NextDecide == DecideSide

SpecDecide == InitDecide /\ [][NextDecide]_vars

Decided == call.fn = "_decide_side" /\ ret # <<>>
FinalSide == ret[1][1]
FinalReasons == ret[1][2]
Contains(q, x) == \E i \in DOMAIN q : q[i] = x

\* C1: when meta_side is client_only the final side is client_only, whatever
\* the loader, the scanner flags and the reason lists are.
C1_ClientOnlyIsFinal == Decided /\ call.meta_side = "client_only" => FinalSide = "client_only"

C1_Witness ==
    Decided /\ call.meta_side = "client_only" /\ call.mixin_client_hit /\ call.class_marker_hit /\ Len(call.class_reasons) > 0

\* C2: with meta_side server_only the final side is risky when a scanner hit
\* and server_only when none did; the reasons contain the mis-packaging
\* warning in the first case and not in the second.
C2_ServerOnlyRule ==
    Decided /\ call.meta_side = "server_only" =>
        IF call.mixin_client_hit \/ call.class_marker_hit
        THEN FinalSide = "risky" /\ Contains(FinalReasons, WARNING)
        ELSE FinalSide = "server_only" /\ ~Contains(FinalReasons, WARNING)

C2_Witness ==
    Decided /\ call.meta_side = "server_only" /\ call.class_marker_hit /\ ~call.mixin_client_hit /\ FinalSide = "risky"

\* C3: with meta_side both or unknown a class-marker hit gives risky, also
\* when the mixin scanner hit; else a mixin hit gives both; else the result
\* is the meta-side.
C3_BothUnknownRule ==
    Decided /\ call.meta_side \in {"both", "unknown"} =>
        FinalSide = IF call.class_marker_hit THEN "risky"
                    ELSE IF call.mixin_client_hit THEN "both"
                    ELSE call.meta_side

C3_Witness ==
    Decided /\ call.meta_side = "unknown" /\ call.class_marker_hit /\ call.mixin_client_hit /\ FinalSide = "risky"

\* The reasons of a call as meta, then mixin when inMixin, then class-scan
\* when inClass, then the warning when warned.
Trail(inMixin, inClass, warned) ==
    MetaTagged(call.loader, call.meta_reasons)
        \o (IF inMixin THEN MixinTagged(call.mixin_reasons) ELSE <<>>)
        \o (IF inClass THEN ClassTagged(call.class_reasons) ELSE <<>>)
        \o (IF warned THEN <<WARNING>> ELSE <<>>)

\* C4 as claimed: the reasons are the tagged meta, mixin and class-scan
\* reasons and the warning, in this order, and the group of every scanner
\* that reported a hit is present.
C4_TrailOfEveryHit ==
    Decided =>
        \E inMixin, inClass, warned \in BOOLEAN :
            /\ call.mixin_client_hit => inMixin
            /\ call.class_marker_hit => inClass
            /\ FinalReasons = Trail(inMixin, inClass, warned)

\* C4 amended: the same order, with the groups of the rule that decided:
\* meta alone for client_only; mixin, class-scan and the warning for
\* server_only with a hit; class-scan alone for both/unknown with a class
\* hit; mixin alone for both/unknown with a mixin hit only.
C4_TrailOfDecidingRule ==
    Decided =>
        FinalReasons =
            IF call.meta_side = "client_only" THEN Trail(FALSE, FALSE, FALSE)
            ELSE IF call.meta_side = "server_only"
                 THEN (IF call.mixin_client_hit \/ call.class_marker_hit THEN Trail(TRUE, TRUE, TRUE) ELSE Trail(FALSE, FALSE, FALSE))
            ELSE IF call.class_marker_hit THEN Trail(FALSE, TRUE, FALSE)
            ELSE Trail(call.mixin_client_hit, FALSE, FALSE)

C4_Witness ==
    /\ Decided /\ call.meta_side = "server_only" /\ call.mixin_client_hit /\ call.class_marker_hit
    /\ call.meta_reasons = <<"m2", "m1">> /\ call.mixin_reasons = <<"x1", "x2">> /\ call.class_reasons = <<"c2", "c1">>
    /\ FinalReasons = <<"[meta/" \o call.loader \o "] m2", "[meta/" \o call.loader \o "] m1", "[mixin] x1", "[mixin] x2",
                        "[class-scan] c2", "[class-scan] c1", WARNING>>

\* C24: the final side is one of the five sides; it is client_only exactly
\* when meta_side is client_only, and server_only exactly when meta_side is
\* server_only and neither scanner hit; a meta_side that is none of the
\* four known ones gives what unknown gives.
C24_NoSideFromScannersAlone ==
    Decided =>
        /\ FinalSide \in {"client_only", "server_only", "both", "risky", "unknown"}
        /\ FinalSide = "client_only" <=> call.meta_side = "client_only"
        /\ FinalSide = "server_only" <=> (call.meta_side = "server_only" /\ ~call.mixin_client_hit /\ ~call.class_marker_hit)
        /\ call.meta_side \notin {"client_only", "server_only", "both", "unknown"} =>
               /\ FinalSide = (IF call.class_marker_hit THEN "risky" ELSE IF call.mixin_client_hit THEN "both" ELSE "unknown")
               /\ FinalReasons = (IF call.class_marker_hit THEN Trail(FALSE, TRUE, FALSE) ELSE Trail(call.mixin_client_hit, FALSE, FALSE))

\* a meta_side that is no side, with a mixin hit alone, gave both
C24_Witness ==
    Decided /\ call.meta_side = "bogus" /\ call.mixin_client_hit /\ ~call.class_marker_hit /\ FinalSide = "both"

---------------------------------------------------------------------------
(* Claims about scanning *)

\* the Registry a handler makes of one archive alone
Alone(a) == HandleItem(<<>>, a).mods

\* C5: a key that is in the Registry keeps its record for as long as it is
\* there: no extraction replaces the record of a key already present.
C5_FirstSeenWins ==
    [][\A i \in DOMAIN mods : mods[i].key \in Keys(mods') => Lookup(mods', mods[i].key) = mods[i].rec]_vars

\* a walk has met two archives of one key and different records, and the
\* Registry holds the record of the first
C5_Witness ==
    /\ scan.pc = "returned"
    /\ \E i, j \in DOMAIN listing :
          /\ i < j
          /\ Len(Alone(listing[i])) = 1 /\ Len(Alone(listing[j])) = 1
          /\ Alone(listing[i])[1].key = Alone(listing[j])[1].key
          /\ Alone(listing[i])[1].rec.name # Alone(listing[j])[1].rec.name
          /\ Alone(listing[i])[1].rec.side # Alone(listing[j])[1].rec.side
          /\ Alone(listing[i])[1].rec.source_files # Alone(listing[j])[1].rec.source_files
          /\ Len(mods) = 1
          /\ mods[1] = Alone(listing[i])[1]

\* C6: a walk that has ended has ended normally, whatever archives failed,
\* and every archive that yields a record has its key in the Registry.
C6_BatchCompletes ==
    scan.pc \in {"returned", "raised"} =>
        /\ scan.pc = "returned"
        /\ \A i \in DOMAIN listing : Keys(Alone(listing[i])) \subseteq Keys(mods)

\* the file of the folder that a record names as its source
SourceOf(rec) == listing[CHOOSE i \in DOMAIN listing : listing[i].path = rec.source_files.v[1].v]

\* C14: the side of every record in the Registry is what _decide_side makes
\* of some meta-side guess and of the mixin and class-marker scans of the
\* record's archive.
C14_ScannersAlwaysRun ==
    \A i \in DOMAIN mods :
        \E meta_side \in {"client_only", "server_only", "both", "unknown"} :
            mods[i].rec.side = Str(Classify(SourceOf(mods[i].rec), mods[i].rec.loader.v, meta_side, <<>>)[1])

\* C15: a walk of a folder raises only at a file that zipfile cannot open:
\* no handler raises on an archive it has opened, whatever its metadata is.
C15_ExtractorsNeverRaise ==
    scan.pc = "raised" => ~listing[scan.idx].zip

\* C17: no record of a loader other than fabric has the side client_only
\* or server_only.
C17_OnlyFabricDeclaresSide ==
    \A i \in DOMAIN mods :
        mods[i].rec.loader # Str("fabric") => mods[i].rec.side \notin {Str("client_only"), Str("server_only")}

\* C18: no record of the Registry has an empty version or the unresolved
\* placeholder as its version.
C18_VersionNormalised ==
    \A i \in DOMAIN mods : mods[i].rec.version \notin {Str(""), Str("${file.jarVersion}")}

\* C19: every record read from a mcmod.info comes from a top-level list or
\* from the list under modlist of a top-level object.
C19_McmodInfoShapes ==
    \A i \in DOMAIN mods :
        mods[i].rec.loader \in {Str("forge_legacy"), Str("universal")} =>
            LET info == JSONClean(Entry(SourceOf(mods[i].rec), "mcmod.info")) IN
            \/ info.t = "list"
            \/ info.t = "dict" /\ "modlist" \in DOMAIN info.v

\* C11: while the folder is walked again with no clear since its last walk,
\* and when that walk has ended, the Registry is the one the last walk
\* left: same keys in the same order, same records, same source_files.
C11_RescanIdempotent ==
    (last.op = "PathHandler" /\ last.rescan) => mods = last.before

\* a second walk of a folder of two mods has ended
C11_Witness ==
    /\ last.op = "PathHandler" /\ last.rescan
    /\ scan.pc = "returned"
    /\ Len(listing) = 2
    /\ Len(mods) = 2
    /\ mods = last.before

---------------------------------------------------------------------------
(* Snapshots.  The record directory is [exists, files]: files are its      *)
(* ModelInfo_*.json files in the order of files.sort(reverse=True), each   *)
(* [name, ok, doc].  A name is the pair that orders it: <<1, t>> for the   *)
(* snapshot SaveToJson writes at second t, <<0, k>> and <<2, k>> for files *)
(* of other origin whose names sort below and above every timestamp.  ok   *)
(* says whether the file can be opened and read, doc is what json.load     *)
(* makes of it (Bad when it raises).  json.dump followed by json.load      *)
(* gives back the lists, dicts and strings written, so a written file's    *)
(* doc is the value dumped.                                                *)

NameAbove(n1, n2) == n1[1] > n2[1] \/ (n1[1] = n2[1] /\ n1[2] > n2[2])

File(name, ok, doc) == [name |-> name, ok |-> ok, doc |-> doc]

\* open(filePath, 'w') and the listing order: the file replaces the one of
\* its name, or takes its place in the reverse-sorted listing
WriteFile(files, f) ==
    LET above == SelectSeq(files, LAMBDA g : NameAbove(g.name, f.name))
        below == SelectSeq(files, LAMBDA g : NameAbove(f.name, g.name))
    IN above \o <<f>> \o below

FieldNames == {"modid", "name", "version", "side", "loader", "reasons", "debug", "source_files"}

\* asdict(mod_info) without its None values
RecordDict(rec) == Dict([k \in {f \in FieldNames : rec[f].t # "null"} |-> rec[k]])

\* datetime.now().strftime("%Y%m%d_%H%M%S") at each second of the model
Timestamps == <<"20260101_000001", "20260101_000002", "20260101_000003", "20260101_000004">>

\* ModInfor.SaveToJson: the document written
SaveData(m, current_path, now) ==
    Dict([metadata |-> Dict([current_path |-> Str(current_path), timestamp |-> Str(Timestamps[now])]),
          mods |-> List([i \in DOMAIN m |-> RecordDict(m[i].rec)])])

\* ModInfor.LoadFromJson: ModInfo(...) of one element of the mods sequence
RecordOf(mod_dict) ==
    ModInfo(Get(mod_dict, "modid", Str("")), Get(mod_dict, "name", Str("")), Get(mod_dict, "version", Str("")),
            Get(mod_dict, "side", None), Get(mod_dict, "loader", None), Get(mod_dict, "reasons", None),
            Get(mod_dict, "debug", None), Get(mod_dict, "source_files", None))

\* the key made of the fields as they are, a missing one not filled in
LoadKey_of_raw_fields(mod_info) ==
    Fmt(mod_info.modid) \o "_" \o Fmt(mod_info.loader) \o "_" \o Fmt(mod_info.version)

LoadKey(mod_info) ==
    _make_mod_key(mod_info.modid, Or(mod_info.loader, Str("unknown")), Or(mod_info.version, Str("unknown")))

RECURSIVE LoadRecords(_, _)
\* ModInfor.LoadFromJson: the loop over mods_data, which raises at the first
\* element that is no dict
LoadRecords(m, mods_data) ==
    IF Len(mods_data) = 0 THEN Returns(m)
    ELSE IF Head(mods_data).t # "dict" THEN Raises(m)
    ELSE LoadRecords(InsertIfNew(m, LoadKey(RecordOf(Head(mods_data))), RecordOf(Head(mods_data))), Tail(mods_data))

\* the Registry once the selected file is about to be opened
ClearedForLoad(m) == <<>>

\* ModInfor.LoadFromJson: [ret, mods], ret the metadata or None
LoadFromJsonResult(m, dir, index) ==
    IF ~dir.exists \/ Len(dir.files) = 0 \/ index >= Len(dir.files) THEN [ret |-> None, mods |-> m]
    ELSE
    LET f == dir.files[index + 1]
        cleared == ClearedForLoad(m)
    IN
    IF ~f.ok \/ f.doc.t = "bad" THEN [ret |-> None, mods |-> cleared]
    ELSE
    LET data == f.doc
        wrapped == data.t = "dict" /\ "metadata" \in DOMAIN data.v /\ "mods" \in DOMAIN data.v
    IN
    IF ~wrapped /\ data.t # "list" THEN [ret |-> None, mods |-> cleared]
    ELSE
    LET metadata == IF wrapped THEN data.v["metadata"] ELSE Dict([current_path |-> Str("")])
        mods_data == IF wrapped THEN data.v["mods"] ELSE data
    IN
    IF mods_data.t # "list" THEN
        \* iterating a dict or a str gives str elements; the rest cannot be iterated
        IF mods_data.t \in {"dict", "str"} /\ ~Truthy(mods_data) THEN [ret |-> metadata, mods |-> cleared]
        ELSE [ret |-> None, mods |-> cleared]
    ELSE
    LET loaded == LoadRecords(cleared, mods_data.v) IN
    [ret |-> IF loaded.raised THEN None ELSE metadata, mods |-> loaded.mods]

---------------------------------------------------------------------------
(* Saving and loading: a scanner whose Registry is the result of a scan,   *)
(* a record directory that is absent, empty or holds files of other        *)
(* origin, and any sequence of SaveToJson, LoadFromJson and clear calls.   *)

MaxClock == 2

RECURSIVE Walk(_, _)
\* ModInfor.PathHandler from its first item to its return or its raise
Walk(m, items) ==
    IF Len(items) = 0 THEN m
    ELSE IF HandleItem(m, Head(items)).raised THEN m
    ELSE Walk(HandleItem(m, Head(items)).mods, Tail(items))

ScannedFolders == { <<FabricServerRisky, ForgePlaceholder, FabricNullName, NotAZip, QuiltClient>> }

\* files that SaveToJson did not write
OldGarbage == File(<<0, 1>>, TRUE, Bad)
OldNoMetadata == File(<<0, 2>>, TRUE, Dict([mods |-> List(<<>>)]))
OldLegacyList ==
    File(<<0, 3>>, TRUE, List(<< Dict([modid |-> Str("x"), name |-> Str("X"), version |-> Str("1")]),
                                Dict([modid |-> Str("y"), version |-> Str(""), reasons |-> List(<<>>), side |-> Str("")]),
                                Dict([modid |-> Str("x"), name |-> Str("X again"), version |-> Str("1"), loader |-> Str("unknown")]) >>))
OldBadElement ==
    File(<<0, 4>>, TRUE, List(<< Dict([modid |-> Str("z"), name |-> Str("Z"), version |-> Str("1")]), Str("oops") >>))
OldUnreadable == File(<<0, 5>>, FALSE, Bad)

OtherFiles == <<OldUnreadable, OldBadElement, OldLegacyList, OldNoMetadata, OldGarbage>>

RecordDirs == { NoDir, [exists |-> TRUE, files |-> <<>>], [exists |-> TRUE, files |-> OtherFiles] }

CurrentPaths == {"", "mods"}

InitSnapshot ==
    /\ call = NoCall
    /\ ret = <<>>
    /\ mods \in {Walk(<<>>, items) : items \in ScannedFolders}
    /\ recordDir \in RecordDirs
    /\ clock = 1
    /\ listing = <<>>
    /\ scan = NoScan
    /\ last = NoOp
    /\ ui = NoUI

\* ModInfor.SaveToJson(record_dir, current_path); failed: makedirs or open
\* raises, nothing is written
SaveToJson(current_path, failed) ==
    /\ recordDir' = IF failed THEN recordDir
                    ELSE [exists |-> TRUE, files |-> WriteFile(recordDir.files, File(<<1, clock>>, TRUE, SaveData(mods, current_path, clock)))]
    /\ last' = [op |-> "SaveToJson", failed |-> failed, before |-> mods, current_path |-> current_path, name |-> <<1, clock>>]
    /\ UNCHANGED <<call, ret, mods, clock, listing, scan, ui>>

\* ModInfor.LoadFromJson(index)
LoadFromJson(index) ==
    /\ LET r == LoadFromJsonResult(mods, recordDir, index) IN
       /\ mods' = r.mods
       /\ last' = [op |-> "LoadFromJson", index |-> index, before |-> mods, ret |-> r.ret,
                   prev |-> IF last.op = "SaveToJson" THEN last ELSE NoOp]
    /\ UNCHANGED <<call, ret, recordDir, clock, listing, scan, ui>>

\* self.mods.clear()
ClearBetween ==
    /\ mods' = <<>>
    /\ last' = NoOp
    /\ UNCHANGED <<call, ret, recordDir, clock, listing, scan, ui>>

\* a second passes
Tick ==
    /\ clock < MaxClock
    /\ clock' = clock + 1
    /\ UNCHANGED <<call, ret, mods, recordDir, listing, scan, last, ui>>

NextSnapshot ==
    \/ \E current_path \in CurrentPaths, failed \in BOOLEAN : SaveToJson(current_path, failed)
    \/ \E index \in 0..Len(recordDir.files) : LoadFromJson(index)
    \/ ClearBetween
    \/ Tick

SpecSnapshot == InitSnapshot /\ [][NextSnapshot]_vars

\* the file LoadFromJson(last.index) selected
Selected == recordDir.files[last.index + 1]

Loaded == last.op = "LoadFromJson" /\ last.index < Len(recordDir.files)

\* the file cannot be read, is not JSON, or is neither a list nor a dict
\* with "metadata" and "mods"
Unusable(f) ==
    \/ ~f.ok
    \/ f.doc.t = "bad"
    \/ f.doc.t # "list" /\ ~(f.doc.t = "dict" /\ "metadata" \in DOMAIN f.doc.v /\ "mods" \in DOMAIN f.doc.v)

\* C7: when LoadFromJson returns None because the selected file is
\* unreadable, is not JSON or has an unrecognized shape, the Registry holds
\* the records it held before the call.
C7_FailedLoadKeepsRegistry ==
    (Loaded /\ Unusable(Selected) /\ last.ret = None) => mods = last.before

\* C8: LoadFromJson of the snapshot that the SaveToJson call just before it
\* wrote gives back the Registry that was saved, key for key in order and
\* field for field, and returns the current_path that was saved.
C8_RoundTrip ==
    (Loaded /\ last.prev.op = "SaveToJson" /\ ~last.prev.failed /\ Selected.name = last.prev.name) =>
        /\ mods = last.prev.before
        /\ last.ret.t = "dict"
        /\ last.ret.v["current_path"] = Str(last.prev.current_path)

---------------------------------------------------------------------------
(* The window: _on_start_scan starts a worker thread that clears the       *)
(* Registry, walks the selected folder and saves; _on_clear,               *)
(* _on_select_path and _on_record_select run on the Tk thread, one handler *)
(* at a time.  No lock guards self.scanner.mods.  scan is the sequence of  *)
(* worker threads, ui the Tk thread.  A thread switch can happen between   *)
(* any two steps; a handler call on one archive, a clear and the insertion *)
(* of one loaded record are single steps.                                  *)

MaxWorkers == 2

\* button presses and selections of the user in one run
MaxClicks == 3

NewWorker == [pc |-> "clear", i |-> 1, begin |-> <<>>, name |-> <<1, 0>>, current_path |-> "", wrote |-> None]

UIFolders == { <<FabricBoth, QuiltClient>>, <<LegacyForge, NotAZip>> }

\* the Tk thread between two handlers, a folder being selected
UIIdle == [pc |-> "idle", clicks |-> 0, selected_path |-> "mods", current_path |-> Str(""), rest |-> <<>>, metadata |-> None]

InitUI ==
    /\ call = NoCall
    /\ ret = <<>>
    /\ mods = <<>>
    /\ recordDir = [exists |-> TRUE, files |-> <<OldLegacyList, OldGarbage>>]
    /\ clock = 1
    /\ listing \in UIFolders
    /\ scan = <<>>
    /\ last = NoOp
    /\ ui = UIIdle

\* UI._on_start_scan: threading.Thread(target=worker).start()
_on_start_scan ==
    /\ ui.pc = "idle" /\ ui.clicks < MaxClicks
    /\ ui.selected_path # ""
    /\ Len(scan) < MaxWorkers
    /\ scan' = Append(scan, NewWorker)
    /\ ui' = [ui EXCEPT !.clicks = ui.clicks + 1]
    /\ UNCHANGED <<call, ret, mods, recordDir, clock, listing, last>>

\* worker: self.scanner.mods.clear()
WorkerClear(w) ==
    /\ scan[w].pc = "clear"
    /\ mods' = <<>>
    /\ scan' = [scan EXCEPT ![w].pc = "walk"]
    /\ UNCHANGED <<call, ret, recordDir, clock, listing, last, ui>>

\* worker: self.scanner.PathHandler(self.selected_path), one item of the
\* folder; os.listdir("") raises, and a raise ends the thread
WorkerWalk(w) ==
    /\ scan[w].pc = "walk"
    /\ IF scan[w].i = 1 /\ ui.selected_path = "" THEN
           /\ scan' = [scan EXCEPT ![w].pc = "dead"]
           /\ mods' = mods
       ELSE IF scan[w].i > Len(listing) THEN
           /\ scan' = [scan EXCEPT ![w].pc = "save"]
           /\ mods' = mods
       ELSE
           LET r == HandleItem(mods, listing[scan[w].i]) IN
           /\ scan' = [scan EXCEPT ![w].pc = IF r.raised THEN "dead" ELSE "walk", ![w].i = scan[w].i + 1]
           /\ mods' = r.mods
    /\ UNCHANGED <<call, ret, recordDir, clock, listing, last, ui>>

\* worker: self.scanner.SaveToJson(record_dir, self.selected_path) up to
\* the loop over self.mods.items()
WorkerSaveBegin(w) ==
    /\ scan[w].pc = "save"
    /\ scan' = [scan EXCEPT ![w].pc = "saving", ![w].begin = mods, ![w].name = <<1, clock>>, ![w].current_path = ui.selected_path]
    /\ UNCHANGED <<call, ret, mods, recordDir, clock, listing, last, ui>>

\* worker: the loop over self.mods.items() and json.dump.  When another
\* thread changed the dict since the loop began, the loop saw the dict of
\* its beginning ("begin"), the changed one ("end"), or raised RuntimeError
\* ("error": the except clause prints, no file is written)
WorkerSaveEnd(w, outcome) ==
    /\ scan[w].pc = "saving"
    /\ mods = scan[w].begin => outcome = "end"
    /\ LET m == IF outcome = "begin" THEN scan[w].begin ELSE mods
           doc == SaveData(m, scan[w].current_path, scan[w].name[2])
       IN IF outcome = "error" THEN
              /\ recordDir' = recordDir
              /\ scan' = [scan EXCEPT ![w].pc = "done"]
          ELSE
              /\ recordDir' = [exists |-> TRUE, files |-> WriteFile(recordDir.files, File(scan[w].name, TRUE, doc))]
              /\ scan' = [scan EXCEPT ![w].pc = "done", ![w].wrote = doc.v["mods"]]
    /\ UNCHANGED <<call, ret, mods, clock, listing, last, ui>>

\* UI._on_clear
_on_clear ==
    /\ ui.pc = "idle" /\ ui.clicks < MaxClicks
    /\ ui' = [ui EXCEPT !.selected_path = "", !.clicks = ui.clicks + 1]
    /\ mods' = <<>>
    /\ UNCHANGED <<call, ret, recordDir, clock, listing, scan, last>>

\* UI._on_select_path, the folder chosen again
_on_select_path ==
    /\ ui.pc = "idle" /\ ui.clicks < MaxClicks
    /\ ui.selected_path = ""
    /\ ui' = [ui EXCEPT !.selected_path = "mods", !.clicks = ui.clicks + 1]
    /\ UNCHANGED <<call, ret, mods, recordDir, clock, listing, scan, last>>

\* self.current_path after LoadFromJson returned metadata
CurrentPathOf(metadata) ==
    IF Truthy(metadata) /\ "current_path" \in DOMAIN metadata.v THEN metadata.v["current_path"] ELSE Str("")

\* UI._on_record_select up to the loop of LoadFromJson over mods_data: both
\* clears and the reading of the file
_on_record_select(idx) ==
    /\ ui.pc = "idle" /\ ui.clicks < MaxClicks
    /\ LET f == recordDir.files[idx + 1]
           wrapped == f.doc.t = "dict" /\ "metadata" \in DOMAIN f.doc.v /\ "mods" \in DOMAIN f.doc.v
           mods_data == IF wrapped THEN f.doc.v["mods"] ELSE f.doc
       IN IF f.ok /\ (wrapped \/ f.doc.t = "list") /\ mods_data.t = "list" THEN
              /\ mods' = <<>>
              /\ ui' = [ui EXCEPT !.pc = "loading", !.clicks = ui.clicks + 1, !.rest = mods_data.v,
                                  !.metadata = IF wrapped THEN f.doc.v["metadata"] ELSE Dict([current_path |-> Str("")])]
          ELSE
              /\ mods' = LoadFromJsonResult(<<>>, recordDir, idx).mods
              /\ ui' = [ui EXCEPT !.clicks = ui.clicks + 1, !.current_path = CurrentPathOf(LoadFromJsonResult(<<>>, recordDir, idx).ret)]
    /\ UNCHANGED <<call, ret, recordDir, clock, listing, scan, last>>

\* LoadFromJson: one turn of the loop over mods_data, or its end, and the
\* rest of _on_record_select
LoadInsert ==
    /\ ui.pc = "loading"
    /\ IF Len(ui.rest) = 0 THEN
           /\ mods' = mods
           /\ ui' = [ui EXCEPT !.pc = "idle", !.current_path = CurrentPathOf(ui.metadata), !.metadata = None]
       ELSE IF Head(ui.rest).t # "dict" THEN
           /\ mods' = mods
           /\ ui' = [ui EXCEPT !.pc = "idle", !.current_path = Str(""), !.rest = <<>>, !.metadata = None]
       ELSE
           /\ mods' = InsertIfNew(mods, LoadKey(RecordOf(Head(ui.rest))), RecordOf(Head(ui.rest)))
           /\ ui' = [ui EXCEPT !.rest = Tail(ui.rest)]
    /\ UNCHANGED <<call, ret, recordDir, clock, listing, scan, last>>

NextUI ==
    \/ _on_start_scan
    \/ \E w \in DOMAIN scan : WorkerClear(w)
    \/ \E w \in DOMAIN scan : WorkerWalk(w)
    \/ \E w \in DOMAIN scan : WorkerSaveBegin(w)
    \/ \E w \in DOMAIN scan, outcome \in {"begin", "end", "error"} : WorkerSaveEnd(w, outcome)
    \/ _on_clear
    \/ _on_select_path
    \/ \E idx \in 0..(Len(recordDir.files) - 1) : _on_record_select(idx)
    \/ LoadInsert

SpecUI == InitUI /\ [][NextUI]_vars

\* the worker has cleared the Registry and its walk has not ended
Scanning(w) == scan[w].pc = "walk"

\* C9: while a worker scans, no LoadFromJson and no SaveToJson is in
\* progress on the Registry and no other worker scans it; and the snapshot a
\* worker wrote at the end of its scan holds exactly the records of the
\* selected folder.
C9_PersistenceExclusive ==
    /\ \A w \in DOMAIN scan : Scanning(w) => ui.pc # "loading" /\ \A v \in DOMAIN scan : scan[v].pc # "saving"
    /\ \A w, v \in DOMAIN scan : Scanning(w) /\ Scanning(v) => w = v
    /\ \A w \in DOMAIN scan : scan[w].wrote # None => scan[w].wrote = SaveData(Walk(<<>>, listing), "", 1).v["mods"]

---------------------------------------------------------------------------
(* Composite keys of the records that the seven handlers make of archives *)
(* declaring the id "m" with a version.                                    *)

LoaderNames == {"fabric", "rift", "quilt", "forge_legacy", "forge", "neoforge", "universal"}

DeclaredVersions == {"1.0", "legacy_1.0", "", "unknown"}

\* an archive in the convention of the loader, declaring id "m" and the version
Declaring(loader, version) ==
    CASE loader = "fabric" ->
            Archive("mods/k.jar", "jar", TRUE, << Member("fabric.mod.json", JsonFile(Dict([id |-> Str("m"), version |-> Str(version)]))) >>)
      [] loader = "rift" ->
            Archive("mods/k.jar", "jar", TRUE, << Member("riftmod.json", JsonFile(Dict([id |-> Str("m"), version |-> Str(version)]))) >>)
      [] loader = "quilt" ->
            Archive("mods/k.jar", "jar", TRUE,
                << Member("quilt.mod.json", JsonFile(Dict([quilt_loader |-> Dict([id |-> Str("m"), version |-> Str(version)])]))) >>)
      [] loader = "forge_legacy" ->
            Archive("mods/k.jar", "jar", TRUE, << Member("mcmod.info", JsonFile(List(<<Dict([modid |-> Str("m"), version |-> Str(version)])>>))) >>)
      [] loader = "forge" ->
            Archive("mods/k.jar", "jar", TRUE,
                << Member("META-INF/mods.toml", TomlFile(Dict([mods |-> List(<<Dict([modId |-> Str("m"), version |-> Str(version)])>>)]))) >>)
      [] loader = "neoforge" ->
            Archive("mods/k.jar", "jar", TRUE,
                << Member("META-INF/neoforge.mods.toml", TomlFile(Dict([mods |-> List(<<Dict([modId |-> Str("m"), version |-> Str(version)])>>)]))) >>)
      [] loader = "universal" ->
            Archive("mods/k.zip", "zip", TRUE, << Member("mcmod.info", JsonFile(List(<<Dict([modid |-> Str("m"), version |-> Str(version)])>>))) >>)

InitKey ==
    /\ call \in [op : {"keys"}, loader1 : LoaderNames, version1 : DeclaredVersions, loader2 : LoaderNames, version2 : DeclaredVersions]
    /\ ret = <<>>
    /\ mods = <<>>
    /\ recordDir = NoDir
    /\ clock = 0
    /\ listing = <<>>
    /\ scan = NoScan
    /\ last = NoOp
    /\ ui = NoUI

\* each of the two archives scanned into an empty Registry
MakeKeys ==
    /\ ret = <<>>
    /\ ret' = << Alone(Declaring(call.loader1, call.version1)), Alone(Declaring(call.loader2, call.version2)) >>
    /\ UNCHANGED <<call, mods, recordDir, clock, listing, scan, last, ui>>

NextKey == MakeKeys

SpecKey == InitKey /\ [][NextKey]_vars

\* C10: two records of one id whose loader or version differ have different
\* composite keys.
C10_KeysDoNotCollide ==
    (ret # <<>> /\ (ret[1][1].rec.loader # ret[2][1].rec.loader \/ ret[1][1].rec.version # ret[2][1].rec.version)) =>
        ret[1][1].key # ret[2][1].key

---------------------------------------------------------------------------
(* JarFileHandler on jars holding any set of the six metadata entries,     *)
(* each entry valid for its own handler, in either order of the namelist.  *)

\* the triggers in the order JarFileHandler tests them, and the loader
\* each one's handler records
Triggers ==
    << "fabric.mod.json", "riftmod.json", "quilt.mod.json", "mcmod.info", "META-INF/mods.toml", "META-INF/neoforge.mods.toml" >>

TriggerLoaders == << "fabric", "rift", "quilt", "forge_legacy", "forge", "neoforge" >>

\* the only member of Declaring(loader, "1")
TriggerMember(i) == Declaring(TriggerLoaders[i], "1").entries[1]

RECURSIVE Ascending(_)
\* the numbers of a set from the least to the greatest
Ascending(S) ==
    IF S = {} THEN <<>>
    ELSE LET least == CHOOSE x \in S : \A y \in S : x <= y IN <<least>> \o Ascending(S \ {least})

Reverse(q) == [i \in DOMAIN q |-> q[Len(q) + 1 - i]]

\* the jar of call: its entries are the chosen triggers
JarOf(c) ==
    LET order == IF c.reversed THEN Reverse(Ascending(c.names)) ELSE Ascending(c.names)
    IN Archive("mods/k.jar", "jar", TRUE, [i \in DOMAIN order |-> TriggerMember(order[i])])

InitDispatch ==
    /\ call \in [fn : {"JarFileHandler"}, names : SUBSET DOMAIN Triggers, reversed : BOOLEAN]
    /\ ret = <<>>
    /\ mods = <<>>
    /\ recordDir = NoDir
    /\ clock = 0
    /\ listing = <<>>
    /\ scan = NoScan
    /\ last = NoOp
    /\ ui = NoUI

\* JarFileHandler(path) on an empty Registry
Dispatch ==
    /\ ret = <<>>
    /\ ret' = << JarFileHandler(<<>>, JarOf(call)) >>
    /\ UNCHANGED <<call, mods, recordDir, clock, listing, scan, last, ui>>

NextDispatch == Dispatch

SpecDispatch == InitDispatch /\ [][NextDispatch]_vars

\* C12: the one record JarFileHandler leaves is the record of the handler
\* of the first trigger present, in the order fabric.mod.json, riftmod.json,
\* quilt.mod.json, mcmod.info, META-INF/mods.toml,
\* META-INF/neoforge.mods.toml; with no trigger the catch-all runs and
\* leaves none.
C12_FirstMatch ==
    ret # <<>> =>
        /\ ~ret[1].raised
        /\ IF call.names = {} THEN ret[1].mods = <<>>
           ELSE /\ Len(ret[1].mods) = 1
                /\ ret[1].mods[1].rec.loader = Str(TriggerLoaders[Ascending(call.names)[1]])

\* a jar with quilt.mod.json, mcmod.info and a mods.toml, listed last
\* trigger first, went to the Quilt handler
C12_Witness ==
    /\ ret # <<>>
    /\ call.names = {3, 4, 5}
    /\ call.reversed
    /\ ret[1].mods[1].rec.loader = Str("quilt")

---------------------------------------------------------------------------
(* _scan_class_bytes_for_client_markers on archives of up to three class   *)
(* entries behind an entry that is no class, with small caps.  A marker    *)
(* ends at byte 30 or at byte 60 of its class, or is absent.               *)

ClassNames == << "A.class", "B.class", "net/C.class" >>

ClassContents ==
    { ClassFile(NoMarker), ClassFile(LwjglAt(30)), ClassFile(LwjglAt(60)), ClassFile(<<60, 0, 0, 0, 30>>),
      [t |-> "class", ok |-> FALSE, at |-> LwjglAt(30)] }

ByteCaps == {0, 29, 30, 59, 60}

ClassCaps == 0..(Len(ClassNames) + 1)

\* the archive of call
CapsArchive(c) ==
    Archive("mods/k.jar", "jar", TRUE,
            << Member("fabric.mod.json", JsonFile(Dict([id |-> Str("m")]))) >>
            \o [i \in DOMAIN c.classes |-> Member(ClassNames[i], c.classes[i])])

InitCaps ==
    /\ call \in [fn : {"_scan_class_bytes_for_client_markers"},
                 classes : UNION { [1..n -> ClassContents] : n \in 0..Len(ClassNames) },
                 max_classes : ClassCaps, max_bytes_per_class : ByteCaps]
    /\ ret = <<>>
    /\ mods = <<>>
    /\ recordDir = NoDir
    /\ clock = 0
    /\ listing = <<>>
    /\ scan = NoScan
    /\ last = NoOp
    /\ ui = NoUI

ScanClasses ==
    /\ ret = <<>>
    /\ ret' = << _scan_class_bytes_for_client_markers(CapsArchive(call), call.max_classes, call.max_bytes_per_class) >>
    /\ UNCHANGED <<call, mods, recordDir, clock, listing, scan, last, ui>>

NextCaps == ScanClasses

SpecCaps == InitCaps /\ [][NextCaps]_vars

\* class entry i has a marker that ends within the first n bytes
MarkerWithin(c, i, n) == \E k \in DOMAIN markers : c.classes[i].at[k] # 0 /\ c.classes[i].at[k] <= n

\* C13: the scanner reports at most max_classes classes, and it reports no
\* hit when no class entry among the first max_classes has a marker within
\* its first max_bytes_per_class bytes, wherever else markers occur.
C13_ScannerCaps ==
    ret # <<>> =>
        /\ Len(ret[1][2]) <= call.max_classes
        /\ (\A i \in DOMAIN call.classes : i <= call.max_classes => ~MarkerWithin(call, i, call.max_bytes_per_class)) =>
               (~ret[1][1] /\ ret[1][2] = <<>>)

\* the class entries of the call that are scanned, readable and hold a
\* marker within the byte cap
HitEntries ==
    { i \in DOMAIN call.classes : i <= call.max_classes /\ call.classes[i].ok /\ MarkerWithin(call, i, call.max_bytes_per_class) }

\* C22: the scanner's flag is true exactly when one of the first max_classes
\* class entries is readable and holds a marker within its first
\* max_bytes_per_class bytes, and its reasons are one per such entry: a hit
\* or an unreadable entry does not end the scan.
C22_NoShortCircuit ==
    ret # <<>> =>
        /\ ret[1][1] = (HitEntries # {})
        /\ Len(ret[1][2]) = Cardinality(HitEntries)

\* a hit in the first class, an unreadable second class and a hit in the
\* third gave two reasons
C22_Witness ==
    /\ ret # <<>>
    /\ call.max_classes = 3 /\ call.max_bytes_per_class = 60
    /\ Len(call.classes) = 3
    /\ call.classes[1] = ClassFile(<<60, 0, 0, 0, 30>>)
    /\ ~call.classes[2].ok
    /\ call.classes[3] = ClassFile(LwjglAt(60))
    /\ ret[1] = << TRUE, << "class bytes contain marker: net/minecraft/client/", "class bytes contain marker: org/lwjgl/" >> >>

\* no hit for an archive with a marker beyond the byte cap of its first
\* class and a marker in its third class, two classes being examined
C13_Witness ==
    /\ ret # <<>>
    /\ call.max_classes = 2 /\ call.max_bytes_per_class = 59
    /\ Len(call.classes) = 3
    /\ call.classes[1] = ClassFile(LwjglAt(60))
    /\ call.classes[2] = ClassFile(NoMarker)
    /\ call.classes[3] = ClassFile(LwjglAt(30))
    /\ ~ret[1][1]

---------------------------------------------------------------------------
(* _extract_fabric_side_from_metadata on fabric.mod.json objects with any  *)
(* environment and any entrypoints of the model.                           *)

Environments == { Str("client"), Str("Client"), Str("server"), Str("SERVER"), Str("*"), Str(""), None, Num(1) }

EntrypointsValues ==
    { Dict([k \in S |-> List(<<Str("X")>>)]) : S \in SUBSET {"client", "main", "preLaunch", "server"} }
    \cup { None, List(<<Str("X")>>) }

FabricJsons ==
    { Dict([id |-> Str("m")]) }
    \cup { Dict([id |-> Str("m"), environment |-> e]) : e \in Environments }
    \cup { Dict([id |-> Str("m"), entrypoints |-> p]) : p \in EntrypointsValues }
    \cup { Dict([id |-> Str("m"), environment |-> e, entrypoints |-> p]) : e \in Environments, p \in EntrypointsValues }

InitFabric ==
    /\ call \in [fn : {"_extract_fabric_side_from_metadata"}, fabric_json : FabricJsons]
    /\ ret = <<>>
    /\ mods = <<>>
    /\ recordDir = NoDir
    /\ clock = 0
    /\ listing = <<>>
    /\ scan = NoScan
    /\ last = NoOp
    /\ ui = NoUI

ExtractFabricSide ==
    /\ ret = <<>>
    /\ ret' = << _extract_fabric_side_from_metadata(call.fabric_json) >>
    /\ UNCHANGED <<call, mods, recordDir, clock, listing, scan, last, ui>>

NextFabric == ExtractFabricSide

SpecFabric == InitFabric /\ [][NextFabric]_vars

\* the environment of the call is the word, in any case
EnvironmentIs(word) ==
    /\ "environment" \in DOMAIN call.fabric_json.v
    /\ call.fabric_json.v["environment"] \in {Str("client"), Str("Client"), Str("server"), Str("SERVER")}
    /\ Lower(call.fabric_json.v["environment"].v) = word

\* the call declares an entry-point of the kind
Declares(kind) ==
    /\ "entrypoints" \in DOMAIN call.fabric_json.v
    /\ call.fabric_json.v["entrypoints"].t = "dict"
    /\ kind \in DOMAIN call.fabric_json.v["entrypoints"].v

\* C16: the meta-side guess returned for a fabric.mod.json is client_only
\* for environment client and server_only for environment server, whatever
\* the entry-points; for any other or absent environment it is both with a
\* main or server entry-point and no client one, client_only with a client
\* entry-point and neither main nor server, and unknown otherwise.
C16_FabricMetaSide ==
    (ret # <<>> /\ ~ret[1].raised) =>
        ret[1].side = IF EnvironmentIs("client") THEN "client_only"
                      ELSE IF EnvironmentIs("server") THEN "server_only"
                      ELSE IF (Declares("main") \/ Declares("server")) /\ ~Declares("client") THEN "both"
                      ELSE IF Declares("client") /\ ~(Declares("main") \/ Declares("server")) THEN "client_only"
                      ELSE "unknown"

\* environment server with only a client entry-point gave server_only
C16_Witness ==
    /\ ret # <<>>
    /\ call.fabric_json = Dict([id |-> Str("m"), environment |-> Str("SERVER"), entrypoints |-> Dict([client |-> List(<<Str("X")>>)])])
    /\ ~ret[1].raised
    /\ ret[1].side = "server_only"

---------------------------------------------------------------------------
(* SpecialHandler on jars with none of the metadata entries, with any      *)
(* mixin config and any classes of the model.                              *)

MixinContents ==
    { JsonFile(Dict([client |-> List(<<Str("X")>>)])), CtrlJsonFile(Dict([client |-> List(<<Str("X")>>)])),
      JsonFile(Dict([client |-> List(<<>>)])), JsonFile(Dict([server |-> List(<<Str("X")>>)])),
      GarbageFile, UnreadableFile }

MaxSpecialClasses == 2

\* the archive of call
SpecialArchive(c) ==
    Archive("mods/s.jar", "jar", TRUE,
            << Member("META-INF/MANIFEST.MF", ManifestFile(<<"1">>)) >>
            \o [i \in DOMAIN c.mixin |-> Member("mixins.m.json", c.mixin[i])]
            \o [i \in DOMAIN c.classes |-> Member(ClassNames[i], c.classes[i])])

InitSpecial ==
    /\ call \in [fn : {"SpecialHandler"},
                 mixin : UNION { [1..n -> MixinContents] : n \in 0..1 },
                 classes : UNION { [1..n -> ClassContents] : n \in 0..MaxSpecialClasses }]
    /\ ret = <<>>
    /\ mods = <<>>
    /\ recordDir = NoDir
    /\ clock = 0
    /\ listing = <<>>
    /\ scan = NoScan
    /\ last = NoOp
    /\ ui = NoUI

\* JarFileHandler's last branch; ret is the side and reasons it computes
SpecialCall ==
    /\ ret = <<>>
    /\ ret' = << SpecialVerdict(SpecialArchive(call)) >>
    /\ mods' = JarFileHandler(mods, SpecialArchive(call)).mods
    /\ UNCHANGED <<call, recordDir, clock, listing, scan, last, ui>>

NextSpecial == SpecialCall

SpecSpecial == InitSpecial /\ [][NextSpecial]_vars

\* the mixin config of the call has a non-empty client section
SpecialMixinHit ==
    \E i \in DOMAIN call.mixin :
        call.mixin[i] \in { JsonFile(Dict([client |-> List(<<Str("X")>>)])), CtrlJsonFile(Dict([client |-> List(<<Str("X")>>)])) }

\* a readable class of the call holds a marker
SpecialClassHit ==
    \E i \in DOMAIN call.classes : call.classes[i].ok /\ call.classes[i].at # NoMarker

\* C20: for a jar with none of the metadata entries, no mixin hit and no
\* class-marker hit, SpecialHandler computes the side unknown and, as its
\* reasons, the one "no known metadata" string under its [meta/special] tag.
C20_CatchAllUnknown ==
    (ret # <<>> /\ ~SpecialMixinHit /\ ~SpecialClassHit) =>
        ret[1] = << "unknown", << "[meta/special] special/unknown mod type: no known metadata" >> >>

\* a jar with an unparsable mixin config, a class without markers and an
\* unreadable class has been classified, and nothing was inserted
C20_Witness ==
    /\ ret # <<>>
    /\ call.mixin = << GarbageFile >>
    /\ call.classes = << ClassFile(NoMarker), [t |-> "class", ok |-> FALSE, at |-> LwjglAt(30)] >>
    /\ ret[1][1] = "unknown"
    /\ mods = <<>>

---------------------------------------------------------------------------
(* modOperator on a scanner: the Registry is any dict of records of every  *)
(* side (scanned or loaded), then walks, clears and filter calls in any    *)
(* order.  In this specification ret is modOperator.filtered_mods, kept    *)
(* like the Registry as its items in insertion order, and call remembers   *)
(* the last filter call with the filtered_mods it found.                   *)

FilterSides == << Str("client_only"), Str("server_only"), Str("both"), Str("risky"), Str("unknown"), None >>

\* a record of the side, as a snapshot load leaves it in the Registry
FilterItem(i) ==
    [key |-> "s" \o ToString(i) \o "_fabric_1",
     rec |-> ModInfo(Str("s" \o ToString(i)), Str("N"), Str("1"), FilterSides[i], Str("fabric"),
                     StrList(<<>>), None, StrList(<<"old/s.jar">>))]

FilterRegistries ==
    { SelectSeq([i \in DOMAIN FilterSides |-> FilterItem(i)], LAMBDA it : it.key \in { FilterItem(i).key : i \in S }) : S \in SUBSET DOMAIN FilterSides }

FilterFolders == { <<>>, <<LegacyForge>>, <<FabricServerRisky, QuiltClient>> }

\* filter_server_and_unknown with no clear() of the earlier result
filter_server_and_unknown_without_clear(filtered_mods, m) ==
    filtered_mods \o SelectSeq(m, LAMBDA it : it.rec.side \in {Str("server_only"), Str("unknown"), Str("risky")}
                                               /\ it.key \notin Keys(filtered_mods))

\* modOperator.filter_server_and_unknown: the filtered_mods it leaves
filter_server_and_unknown(filtered_mods, m) ==
    LET cleared == <<>> IN
    cleared \o SelectSeq(m, LAMBDA it : it.rec.side \in {Str("server_only"), Str("unknown"), Str("risky")})

InitFilter ==
    /\ call = NoCall
    /\ ret = <<>>
    /\ mods \in FilterRegistries
    /\ recordDir = NoDir
    /\ clock = 0
    /\ listing \in FilterFolders
    /\ scan = NoScan
    /\ last = NoOp
    /\ ui = NoUI

Filter ==
    /\ scan.pc # "walking"
    /\ ret' = filter_server_and_unknown(ret, mods)
    /\ call' = [fn |-> "filter_server_and_unknown", before |-> ret]
    /\ UNCHANGED <<mods, recordDir, clock, listing, scan, last, ui>>

NextFilter == PathHandlerCall \/ PathHandlerItem \/ ClearMods \/ Filter

SpecFilter == InitFilter /\ [][NextFilter]_vars

---------------------------------------------------------------------------
(* _scan_mixins_for_client_sections on archives of a few entries, each of  *)
(* any name and any content of the model.                                  *)

MixinScanNames == { "mixins.m.json", "assets/Mixins.M.Client.JSON", "x.mixins.json", "mixins/m.json" }

MixinScanContents ==
    MixinContents \cup { DeepJsonFile, CtrlJsonFile(List(<<Str("X")>>)), JsonFile(Dict([client |-> Dict([a |-> Str("X")])])) }

MaxMixinEntries == 2

\* the archive of call
MixinArchive(c) == Archive("mods/x.jar", "jar", TRUE, c.entries)

InitMixins ==
    /\ call \in [fn : {"_scan_mixins_for_client_sections"},
                 entries : UNION { [1..n -> [name : MixinScanNames, c : MixinScanContents]] : n \in 0..MaxMixinEntries }]
    /\ ret = <<>>
    /\ mods = <<>>
    /\ recordDir = NoDir
    /\ clock = 0
    /\ listing = <<>>
    /\ scan = NoScan
    /\ last = NoOp
    /\ ui = NoUI

ScanMixins ==
    /\ ret = <<>>
    /\ ret' = << IF _scan_mixins_raises(MixinArchive(call)) THEN [raised |-> TRUE]
                 ELSE [raised |-> FALSE, out |-> _scan_mixins_for_client_sections(MixinArchive(call))] >>
    /\ UNCHANGED <<call, mods, recordDir, clock, listing, scan, last, ui>>

NextMixins == ScanMixins

SpecMixins == InitMixins /\ [][NextMixins]_vars

\* entry i of the call is named like a mixin config and is an object with
\* a non-empty list under client
ClientSection(i) ==
    /\ call.entries[i].name \in {"mixins.m.json", "assets/Mixins.M.Client.JSON"}
    /\ call.entries[i].c \in { JsonFile(Dict([client |-> List(<<Str("X")>>)])), CtrlJsonFile(Dict([client |-> List(<<Str("X")>>)])) }

\* C23: the mixin scanner returns, with the flag true exactly when some
\* entry named like a mixin config is an object with a non-empty client
\* list, and with one reason per such entry in the order of the entries,
\* whatever unreadable or unparsable entries stand beside them.
C23_AnyHitCollector ==
    ret # <<>> =>
        /\ ~ret[1].raised
        /\ ret[1].out[1] = (\E i \in DOMAIN call.entries : ClientSection(i))
        /\ ret[1].out[2] = [k \in DOMAIN SelectSeq(call.entries, LAMBDA e : \E i \in DOMAIN call.entries : call.entries[i] = e /\ ClientSection(i))
                               |-> MixinReason(SelectSeq(call.entries, LAMBDA e : \E i \in DOMAIN call.entries : call.entries[i] = e /\ ClientSection(i))[k].name)]

---------------------------------------------------------------------------
(* The Registry over its whole life: a scanner that starts empty, with a   *)
(* folder to walk and a record directory, and walks, clears, saves and     *)
(* loads in any order.                                                     *)

RegistryFolders == { <<FabricServerRisky, ForgePlaceholder, FabricNullName, NotAZip, QuiltClient>>, <<ForgeNoVersion, UniversalLitemod, FabricBoth>> }

InitRegistry ==
    /\ call = NoCall
    /\ ret = <<>>
    /\ mods = <<>>
    /\ recordDir \in RecordDirs
    /\ clock = 1
    /\ listing \in RegistryFolders
    /\ scan = NoScan
    /\ last = NoOp
    /\ ui = NoUI

\* SaveToJson between two walks
SaveBetweenWalks(current_path, failed) == scan.pc # "walking" /\ SaveToJson(current_path, failed)

\* LoadFromJson between two walks
LoadBetweenWalks(index) == scan.pc # "walking" /\ LoadFromJson(index)

NextRegistry ==
    \/ PathHandlerCall
    \/ PathHandlerItem
    \/ ClearMods
    \/ \E current_path \in CurrentPaths, failed \in BOOLEAN : SaveBetweenWalks(current_path, failed)
    \/ \E index \in 0..Len(recordDir.files) : LoadBetweenWalks(index)

SpecRegistry == InitRegistry /\ [][NextRegistry]_vars

\* C25: after every step the key of each entry of the Registry is
\* _make_mod_key of the entry's own modid, loader and version, and an entry
\* that a walk has just inserted has a non-empty modid and, as its
\* source_files, the one path of the archive being handled.
C25_KeyMatchesRecord ==
    [][/\ \A i \in DOMAIN mods' :
             mods'[i].key = _make_mod_key(mods'[i].rec.modid, mods'[i].rec.loader, mods'[i].rec.version)
       /\ scan.pc = "walking" =>
             \A i \in DOMAIN mods' :
                 (\A j \in DOMAIN mods : mods[j] # mods'[i]) =>
                     /\ Truthy(mods'[i].rec.modid)
                     /\ mods'[i].rec.source_files = StrList(<< listing[scan.idx].path >>)]_vars

\* the Registry holds a loaded record with no loader and an empty version
\* and, walked in after the load, a record whose declared version is empty
C25_Witness ==
    /\ scan.pc = "returned"
    /\ \E i \in DOMAIN mods : mods[i].key = "y_unknown_unknown" /\ mods[i].rec.loader = None /\ mods[i].rec.version = Str("")
    /\ \E i \in DOMAIN mods : mods[i].key = "e_forge_unknown" /\ mods[i].rec.version = Str("") /\ mods[i].rec.source_files = StrList(<<"mods/e.jar">>)

===========================================================================
